---------------------------- MODULE Spec2Model ----------------------------
(***************************************************************************)
(* Sale-transaction and stock-ledger subsystem of the YeboMart API.        *)
(*                                                                         *)
(* The database is PostgreSQL behind Prisma (READ COMMITTED): a statement  *)
(* outside a transaction commits on its own; the writes of a $transaction  *)
(* are invisible to every other request until it commits, are all dropped  *)
(* when it fails, and an UPDATE waits while another open transaction holds *)
(* the row it writes.  Every request handler is a process whose steps are  *)
(* its database statements; the awaits between them are the points where   *)
(* other requests interleave.                                              *)
(***************************************************************************)
EXTENDS Integers, Sequences, FiniteSets, TLC

VARIABLES
    products,   \* Product table: id -> row
    sales,      \* Sale table with its SaleItems, in commit order
    stockLogs,  \* StockLog table (the ledger), in commit order
    shops,      \* Shop table: id -> usage counters
    req,        \* request handlers in flight: process -> locals and position
    nreq,       \* number of requests received so far
    now,        \* server clock, in ticks
    returns     \* Return table with its items and exchange items, in commit order

vars == <<products, sales, stockLogs, shops, req, nreq, now, returns>>

db == <<products, sales, stockLogs>>

-----------------------------------------------------------------------------
(* Bounds of the model *)

MaxRequests == 2
MaxQty == 2
InitQty == 2
TicksPerDay == 2
TzOffset == 1
MaxNow == 2

\* two request handlers run at a time
Procs == {1, 2}

ShopIds == {"A", "B"}
ProductIds == {"P1", "P2", "P3", "P4"}

SeqSum(s) == LET RECURSIVE Go(_)
                 Go(i) == IF i > Len(s) THEN 0 ELSE s[i] + Go(i + 1)
             IN Go(1)

Range(s) == {s[i] : i \in DOMAIN s}

Min(S) == CHOOSE x \in S : \A y \in S : x <= y

-----------------------------------------------------------------------------
(* Rows *)

Product(shop, sell, cost, qty, track, active) ==
    [shopId |-> shop, sellPrice |-> sell, costPrice |-> cost, quantity |-> qty,
     trackStock |-> track, isActive |-> active]

StockLog(shop, pid, type, qty, prev, new, ref) ==
    [shopId |-> shop, productId |-> pid, type |-> type, quantity |-> qty,
     previousQty |-> prev, newQty |-> new, reference |-> ref]

\* ProductService.create: the row, and an INITIAL entry when quantity > 0
InitialLog(pid, p) == StockLog(p.shopId, pid, "INITIAL", p.quantity, 0, p.quantity, <<>>)

Catalog ==
    [pid \in ProductIds |->
        CASE pid = "P1" -> Product("A", 12, 8, InitQty, TRUE, TRUE)
          [] pid = "P2" -> Product("A", 5, 3, InitQty, TRUE, TRUE)
          [] pid = "P3" -> Product("A", 2, 1, 0, FALSE, TRUE)
          [] pid = "P4" -> Product("B", 7, 4, InitQty, TRUE, TRUE)]

ProductOrder == <<"P1", "P2", "P3", "P4">>

InitialLogs ==
    LET RECURSIVE Go(_)
        Go(i) == IF i > Len(ProductOrder) THEN <<>>
                 ELSE LET pid == ProductOrder[i] IN
                      (IF Catalog[pid].quantity > 0
                       THEN <<InitialLog(pid, Catalog[pid])>> ELSE <<>>) \o Go(i + 1)
    IN Go(1)

-----------------------------------------------------------------------------
(* Request handlers *)

Item(pid, q, d) == [productId |-> pid, quantity |-> q, discount |-> d]

NoTx == [sale |-> <<>>, saleUpd |-> <<>>, qty |-> <<>>, logs |-> <<>>]

Idle ==
    [op |-> "idle", pc |-> "idle", id |-> 0, shopId |-> "A", items |-> <<>>,
     amountPaid |-> 0, discount |-> 0, saleId |-> 0, adjType |-> "",
     productMap |-> <<>>, saleItems |-> <<>>, subtotal |-> 0, totalAmount |-> 0,
     change |-> 0, i |-> 0, readAt |-> 0, reason |-> "", productId |-> "",
     data |-> <<>>, returnRecord |-> <<>>, action |-> "", tx |-> NoTx, result |-> ""]

\* A handler that has returned or thrown keeps only whose request it was, the
\* sale it was about and what it answered.
Done(r, result) ==
    [Idle EXCEPT !.op = r.op, !.pc = "done", !.id = r.id, !.shopId = r.shopId,
                 !.saleId = r.saleId, !.result = result]

CanStart(p) == req[p].pc \in {"idle", "done"} /\ nreq < MaxRequests

\* Rows an open transaction of process q has written and so holds locked.
InTx(q) == req[q].pc \in {"c_items", "c_commit", "v_read", "v_items", "v_commit", "r_items", "r_commit"}

LockedProducts(q) == IF InTx(q) THEN {w[1] : w \in Range(req[q].tx.qty)} ELSE {}

LockedSales(q) == IF InTx(q) THEN {u.id : u \in Range(req[q].tx.saleUpd)} ELSE {}

ProductFree(p, pid) == \A q \in Procs \ {p} : pid \notin LockedProducts(q)

SaleFree(p, sid) == \A q \in Procs \ {p} : sid \notin LockedSales(q)

\* Applying a transaction's buffered product writes, in statement order.
ApplyQty(prods, writes) ==
    LET RECURSIVE Go(_, _)
        Go(ps, i) == IF i > Len(writes) THEN ps
                     ELSE Go([ps EXCEPT ![writes[i][1]].quantity = writes[i][2]], i + 1)
    IN Go(prods, 1)

ApplySaleUpd(ss, upds) ==
    [k \in DOMAIN ss |->
        IF \E u \in Range(upds) : u.id = ss[k].id
        THEN LET u == CHOOSE u \in Range(upds) : u.id = ss[k].id
             IN [ss[k] EXCEPT !.status = u.status, !.voidReason = u.voidReason]
        ELSE ss[k]]

-----------------------------------------------------------------------------
(* SaleService.create *)

\* prisma.product.findMany({ id in productIds, shopId, isActive: true })
FindProducts(shop, ids, activeOnly) ==
    {pid \in ProductIds : /\ pid \in ids
                          /\ products[pid].shopId = shop
                          /\ (activeOnly => products[pid].isActive)}

\* the line total with the discount taken off every unit
ItemTotalDiscountPerUnit(prod, item) == (prod.sellPrice - item.discount) * item.quantity

ItemTotal(prod, item) == (prod.sellPrice * item.quantity) - item.discount

SaleItem(prod, item) ==
    [productId |-> item.productId, quantity |-> item.quantity,
     unitPrice |-> prod.sellPrice, costPrice |-> prod.costPrice,
     discount |-> item.discount, totalPrice |-> ItemTotal(prod, item)]

\* the pricing loop without its stock check
FirstShortUnchecked(pm, items) == 0

\* the pricing loop rejecting a line that asks for all the stock there is
FirstShortStrict(pm, items) ==
    LET short == {i \in DOMAIN items :
                     /\ pm[items[i].productId].trackStock
                     /\ pm[items[i].productId].quantity <= items[i].quantity}
    IN IF short = {} THEN 0 ELSE Min(short)

\* the pricing loop: the first line that fails the stock check, or 0
FirstShort(pm, items) ==
    LET short == {i \in DOMAIN items :
                     /\ pm[items[i].productId].trackStock
                     /\ pm[items[i].productId].quantity < items[i].quantity}
    IN IF short = {} THEN 0 ELSE Min(short)

TotalAmountUndiscounted(subtotal, discount, tax) == subtotal + tax

TotalAmount(subtotal, discount, tax) == subtotal - discount + tax

\* UTC date of the YYMMDD part, and the server-local day the count ranges over
DateStr(t) == t \div TicksPerDay

LocalDay(t) == (t + TzOffset) \div TicksPerDay

\* the same count over the sales that are still COMPLETED
TodaySalesCountCompleted(shop, t) ==
    Cardinality({k \in DOMAIN sales : /\ sales[k].shopId = shop
                                      /\ sales[k].status = "COMPLETED"
                                      /\ LocalDay(sales[k].createdAt) = LocalDay(t)})

TodaySalesCount(shop, t) ==
    Cardinality({k \in DOMAIN sales : /\ sales[k].shopId = shop
                                      /\ LocalDay(sales[k].createdAt) = LocalDay(t)})

ReceiptNumber(shop, t) == <<DateStr(t), TodaySalesCount(shop, t) + 1>>

\* lines 399-449: resolution, stock check, pricing, totals, payment check
CreateValidate(id, shop, items, amountPaid, discount) ==
    LET ids == {items[i].productId : i \in DOMAIN items}
        found == FindProducts(shop, ids, TRUE)
        r0 == [Idle EXCEPT !.op = "create", !.id = id, !.shopId = shop]
    IN IF Cardinality(found) # Len(items)
       THEN Done(r0, "ProductNotFound")
       ELSE LET pm == [pid \in found |-> products[pid]]
                saleItems == [i \in DOMAIN items |-> SaleItem(pm[items[i].productId], items[i])]
                subtotal == SeqSum([i \in DOMAIN items |-> saleItems[i].totalPrice])
                totalAmount == TotalAmount(subtotal, discount, 0)
                change == amountPaid - totalAmount
            IN IF FirstShort(pm, items) # 0
               THEN Done(r0, "InsufficientStock")
               ELSE IF change < 0
               THEN Done(r0, "InsufficientPayment")
               ELSE [r0 EXCEPT !.pc = "c_begin", !.items = items,
                               !.amountPaid = amountPaid, !.discount = discount,
                               !.productMap = pm, !.saleItems = saleItems,
                               !.subtotal = subtotal, !.totalAmount = totalAmount,
                               !.change = change, !.readAt = Len(stockLogs)]

\* the same handler with the stock log written before the payment check
CreateStartLogsFirst(p, shop, items, amountPaid, discount) ==
    /\ CanStart(p)
    /\ nreq' = nreq + 1
    /\ LET out == CreateValidate(nreq + 1, shop, items, amountPaid, discount)
           pid == items[1].productId
           qty == products[pid].quantity
       IN /\ req' = [req EXCEPT ![p] = out]
          /\ stockLogs' = IF out.result = "InsufficientPayment"
                          THEN Append(stockLogs,
                                   StockLog(shop, pid, "SALE", -items[1].quantity, qty,
                                            qty - items[1].quantity, <<out.id>>))
                          ELSE stockLogs
    /\ UNCHANGED <<products, sales, shops, now, returns>>

CreateStart(p, shop, items, amountPaid, discount) ==
    /\ CanStart(p)
    /\ nreq' = nreq + 1
    /\ req' = [req EXCEPT ![p] = CreateValidate(nreq + 1, shop, items, amountPaid, discount)]
    /\ UNCHANGED <<products, sales, stockLogs, shops, now, returns>>

\* the same statement inserting the sale as PENDING
CreateTxBeginPending(p) ==
    /\ req[p].pc = "c_begin"
    /\ LET r == req[p]
           sale == [id |-> r.id, shopId |-> r.shopId,
                    receiptNumber |-> ReceiptNumber(r.shopId, now),
                    subtotal |-> r.subtotal, discount |-> r.discount, tax |-> 0,
                    totalAmount |-> r.totalAmount, amountPaid |-> r.amountPaid,
                    change |-> r.change, status |-> "PENDING", voidReason |-> "",
                    createdAt |-> now, items |-> r.saleItems]
       IN req' = [req EXCEPT ![p].pc = "c_items", ![p].i = 1, ![p].saleId = r.id,
                             ![p].tx = [NoTx EXCEPT !.sale = <<sale>>]]
    /\ UNCHANGED <<products, sales, stockLogs, shops, nreq, now, returns>>

\* $transaction opens: tx.sale.count, then tx.sale.create with its items
CreateTxBegin(p) ==
    /\ req[p].pc = "c_begin"
    /\ LET r == req[p]
           sale == [id |-> r.id, shopId |-> r.shopId,
                    receiptNumber |-> ReceiptNumber(r.shopId, now),
                    subtotal |-> r.subtotal, discount |-> r.discount, tax |-> 0,
                    totalAmount |-> r.totalAmount, amountPaid |-> r.amountPaid,
                    change |-> r.change, status |-> "COMPLETED", voidReason |-> "",
                    createdAt |-> now, items |-> r.saleItems]
       IN req' = [req EXCEPT ![p].pc = "c_items", ![p].i = 1, ![p].saleId = r.id,
                             ![p].tx = [NoTx EXCEPT !.sale = <<sale>>]]
    /\ UNCHANGED <<products, sales, stockLogs, shops, nreq, now, returns>>

\* the same round with prisma.product.update in place of tx.product.update:
\* the quantity write commits on its own
CreateTxItemOutsideTx(p) ==
    /\ req[p].pc = "c_items"
    /\ LET r == req[p]
           item == r.items[r.i]
           product == r.productMap[item.productId]
           newQty == product.quantity - item.quantity
           pc2 == IF r.i = Len(r.items) THEN "c_commit" ELSE "c_items"
       IN IF product.trackStock
          THEN /\ ProductFree(p, item.productId)
               /\ products' = [products EXCEPT ![item.productId].quantity = newQty]
               /\ req' = [req EXCEPT
                     ![p].pc = pc2, ![p].i = r.i + 1,
                     ![p].tx.logs = Append(@,
                         StockLog(r.shopId, item.productId, "SALE", -item.quantity,
                                  product.quantity, newQty, <<r.saleId>>))]
          ELSE products' = products /\ req' = [req EXCEPT ![p].pc = pc2, ![p].i = r.i + 1]
    /\ UNCHANGED <<sales, stockLogs, shops, nreq, now, returns>>

\* the same round without the trackStock test
CreateTxItemAnyProduct(p) ==
    /\ req[p].pc = "c_items"
    /\ LET r == req[p]
           item == r.items[r.i]
           product == r.productMap[item.productId]
           newQty == product.quantity - item.quantity
           pc2 == IF r.i = Len(r.items) THEN "c_commit" ELSE "c_items"
       IN /\ ProductFree(p, item.productId)
          /\ req' = [req EXCEPT
                ![p].pc = pc2, ![p].i = r.i + 1,
                ![p].tx.qty = Append(@, <<item.productId, newQty>>),
                ![p].tx.logs = Append(@,
                    StockLog(r.shopId, item.productId, "SALE", -item.quantity,
                             product.quantity, newQty, <<r.saleId>>))]
    /\ UNCHANGED <<products, sales, stockLogs, shops, nreq, now, returns>>

\* one round of the stock loop: tx.product.update and tx.stockLog.create
CreateTxItem(p) ==
    /\ req[p].pc = "c_items"
    /\ LET r == req[p]
           item == r.items[r.i]
           product == r.productMap[item.productId]
           newQty == product.quantity - item.quantity
           pc2 == IF r.i = Len(r.items) THEN "c_commit" ELSE "c_items"
       IN IF product.trackStock
          THEN /\ ProductFree(p, item.productId)
               /\ req' = [req EXCEPT
                     ![p].pc = pc2, ![p].i = r.i + 1,
                     ![p].tx.qty = Append(@, <<item.productId, newQty>>),
                     ![p].tx.logs = Append(@,
                         StockLog(r.shopId, item.productId, "SALE", -item.quantity,
                                  product.quantity, newQty, <<r.saleId>>))]
          ELSE req' = [req EXCEPT ![p].pc = pc2, ![p].i = r.i + 1]
    /\ UNCHANGED <<products, sales, stockLogs, shops, nreq, now, returns>>

\* the same commit with voidSale removing the entries of the sale it voids
TxCommitCompacting(p) ==
    /\ products' = ApplyQty(products, req[p].tx.qty)
    /\ sales' = ApplySaleUpd(sales, req[p].tx.saleUpd) \o req[p].tx.sale
    /\ stockLogs' = SelectSeq(stockLogs,
                        LAMBDA e : \A u \in Range(req[p].tx.saleUpd) : e.reference # <<u.id>>)
                    \o req[p].tx.logs

\* the transaction commits: every buffered write becomes visible at once
TxCommit(p) ==
    /\ products' = ApplyQty(products, req[p].tx.qty)
    /\ sales' = ApplySaleUpd(sales, req[p].tx.saleUpd) \o req[p].tx.sale
    /\ stockLogs' = stockLogs \o req[p].tx.logs

CreateCommit(p) ==
    /\ req[p].pc = "c_commit"
    /\ TxCommit(p)
    /\ req' = [req EXCEPT ![p].pc = "c_usage", ![p].tx = NoTx]
    /\ UNCHANGED <<shops, nreq, now, returns>>

\* ShopService.incrementUsage
IncrementUsage(shop, type, n) ==
    IF type = "transaction"
    THEN [shops EXCEPT ![shop].monthlyTransactions = @ + n]
    ELSE [shops EXCEPT ![shop].monthlyStockMoves = @ + n]

\* await ShopService.incrementUsage(shopId, 'transaction'); return sale
CreateUsage(p) ==
    /\ req[p].pc = "c_usage"
    /\ \/ /\ shops' = IncrementUsage(req[p].shopId, "transaction", 1)
          /\ req' = [req EXCEPT ![p] = Done(req[p], "ok")]
       \/ /\ shops' = shops
          /\ req' = [req EXCEPT ![p] = Done(req[p], "UsageFailed")]
    /\ UNCHANGED <<products, sales, stockLogs, nreq, now, returns>>

\* a statement of an open transaction fails (storage error, timeout, deadlock
\* victim): the callback throws and the transaction rolls back
TxFail(p) ==
    /\ InTx(p)
    /\ req' = [req EXCEPT ![p] = Done(req[p], "TransactionFailed")]
    /\ UNCHANGED <<products, sales, stockLogs, shops, nreq, now, returns>>

-----------------------------------------------------------------------------
(* POST /sales: trackUsage('transaction'), then SaleController.create *)

\* trackUsage: prisma.shop.update({ increment: 1 }) issued in the background,
\* its failure logged and dropped
TrackUsage(shop, type) == {IncrementUsage(shop, type, 1), shops}

PostSale(p, shop, items, amountPaid, discount) ==
    /\ CanStart(p)
    /\ nreq' = nreq + 1
    /\ shops' \in TrackUsage(shop, "transaction")
    /\ req' = [req EXCEPT ![p] = CreateValidate(nreq + 1, shop, items, amountPaid, discount)]
    /\ UNCHANGED <<products, sales, stockLogs, now, returns>>

-----------------------------------------------------------------------------
(* SaleService.voidSale *)

\* the same lookup without the shopId filter
FindSaleAnyShop(shop, sid) ==
    {k \in DOMAIN sales : /\ sales[k].id = sid
                          /\ sales[k].status = "COMPLETED"}

\* prisma.sale.findFirst({ id, shopId, status: 'COMPLETED' }, include items)
FindSale(shop, sid) ==
    {k \in DOMAIN sales : /\ sales[k].id = sid
                          /\ sales[k].shopId = shop
                          /\ sales[k].status = "COMPLETED"}

VoidStart(p, shop, sid, reason) ==
    /\ CanStart(p)
    /\ nreq' = nreq + 1
    /\ LET r0 == [Idle EXCEPT !.op = "void", !.id = nreq + 1, !.shopId = shop, !.saleId = sid]
           found == FindSale(shop, sid)
       IN IF found = {}
          THEN req' = [req EXCEPT ![p] = Done(r0, "NotFoundOrVoided")]
          ELSE LET sale == sales[CHOOSE k \in found : TRUE]
               IN req' = [req EXCEPT ![p] =
                      [r0 EXCEPT !.pc = "v_begin", !.saleItems = sale.items,
                                 !.reason = reason, !.readAt = Len(stockLogs)]]
    /\ UNCHANGED <<products, sales, stockLogs, shops, now, returns>>

\* $transaction opens: tx.sale.update({ where: { id }, data: { status, voidReason } })
VoidTxBegin(p) ==
    /\ req[p].pc = "v_begin"
    /\ SaleFree(p, req[p].saleId)
    /\ LET r == req[p]
           upd == [id |-> r.saleId, status |-> "VOIDED", voidReason |-> r.reason]
       IN req' = [req EXCEPT ![p].pc = IF Len(r.saleItems) = 0 THEN "v_commit" ELSE "v_read",
                             ![p].i = 1,
                             ![p].tx = [NoTx EXCEPT !.saleUpd = <<upd>>]]
    /\ UNCHANGED <<products, sales, stockLogs, shops, nreq, now, returns>>

\* what a statement of process p's open transaction reads of a product
TxProduct(p, pid) ==
    LET mine == {k \in DOMAIN req[p].tx.qty : req[p].tx.qty[k][1] = pid}
    IN IF mine = {} THEN products[pid]
       ELSE [products[pid] EXCEPT !.quantity = req[p].tx.qty[CHOOSE k \in mine : \A j \in mine : j <= k][2]]

\* tx.product.findUnique({ where: { id: item.productId } })
VoidTxRead(p) ==
    /\ req[p].pc = "v_read"
    /\ LET r == req[p]
           item == r.saleItems[r.i]
           product == TxProduct(p, item.productId)
       IN IF product.trackStock
          THEN req' = [req EXCEPT ![p].pc = "v_items",
                                  ![p].productMap = [x \in {item.productId} |-> product]]
          ELSE req' = [req EXCEPT ![p].pc = IF r.i = Len(r.saleItems) THEN "v_commit" ELSE "v_read",
                                  ![p].i = r.i + 1]
    /\ UNCHANGED <<products, sales, stockLogs, shops, nreq, now, returns>>

\* the same statements writing the quantity back as it was read
VoidTxItemNoCredit(p) ==
    /\ req[p].pc = "v_items"
    /\ LET r == req[p]
           item == r.saleItems[r.i]
           product == r.productMap[item.productId]
           newQty == product.quantity + item.quantity
       IN /\ ProductFree(p, item.productId)
          /\ req' = [req EXCEPT
                ![p].pc = IF r.i = Len(r.saleItems) THEN "v_commit" ELSE "v_read",
                ![p].i = r.i + 1,
                ![p].productMap = <<>>,
                ![p].tx.qty = Append(@, <<item.productId, product.quantity>>),
                ![p].tx.logs = Append(@,
                    StockLog(r.shopId, item.productId, "RETURN", item.quantity,
                             product.quantity, newQty, <<r.saleId>>))]
    /\ UNCHANGED <<products, sales, stockLogs, shops, nreq, now, returns>>

\* tx.product.update and tx.stockLog.create of one item
VoidTxItem(p) ==
    /\ req[p].pc = "v_items"
    /\ LET r == req[p]
           item == r.saleItems[r.i]
           product == r.productMap[item.productId]
           newQty == product.quantity + item.quantity
       IN /\ ProductFree(p, item.productId)
          /\ req' = [req EXCEPT
                ![p].pc = IF r.i = Len(r.saleItems) THEN "v_commit" ELSE "v_read",
                ![p].i = r.i + 1,
                ![p].productMap = <<>>,
                ![p].tx.qty = Append(@, <<item.productId, newQty>>),
                ![p].tx.logs = Append(@,
                    StockLog(r.shopId, item.productId, "RETURN", item.quantity,
                             product.quantity, newQty, <<r.saleId>>))]
    /\ UNCHANGED <<products, sales, stockLogs, shops, nreq, now, returns>>

\* the same commit giving the voided sale's transaction back to the counter
VoidCommitReleasesUsage(p) ==
    /\ req[p].pc = "v_commit"
    /\ TxCommit(p)
    /\ req' = [req EXCEPT ![p] = Done(req[p], "ok")]
    /\ shops' = IncrementUsage(req[p].shopId, "transaction", -1)
    /\ UNCHANGED <<nreq, now, returns>>

VoidCommit(p) ==
    /\ req[p].pc = "v_commit"
    /\ TxCommit(p)
    /\ req' = [req EXCEPT ![p] = Done(req[p], "ok")]
    /\ UNCHANGED <<shops, nreq, now, returns>>

-----------------------------------------------------------------------------
(* StockService.adjust *)

\* the same handler without the check of the resulting quantity
AdjustStartUnchecked(p, shop, pid, type, quantity) ==
    /\ CanStart(p)
    /\ nreq' = nreq + 1
    /\ LET r0 == [Idle EXCEPT !.op = "adjust", !.id = nreq + 1, !.shopId = shop]
           found == FindProducts(shop, {pid}, FALSE)
       IN IF found = {}
          THEN req' = [req EXCEPT ![p] = Done(r0, "ProductNotFound")]
          ELSE req' = [req EXCEPT ![p] =
                  [r0 EXCEPT !.pc = "a_commit", !.adjType = type,
                             !.items = <<Item(pid, quantity, 0)>>,
                             !.productMap = [x \in {pid} |-> products[pid]],
                             !.readAt = Len(stockLogs)]]
    /\ UNCHANGED <<products, sales, stockLogs, shops, now, returns>>

AdjustStart(p, shop, pid, type, quantity) ==
    /\ CanStart(p)
    /\ nreq' = nreq + 1
    /\ LET r0 == [Idle EXCEPT !.op = "adjust", !.id = nreq + 1, !.shopId = shop]
           found == FindProducts(shop, {pid}, FALSE)
       IN IF found = {}
          THEN req' = [req EXCEPT ![p] = Done(r0, "ProductNotFound")]
          ELSE IF products[pid].quantity + quantity < 0
          THEN req' = [req EXCEPT ![p] = Done(r0, "BelowZero")]
          ELSE req' = [req EXCEPT ![p] =
                  [r0 EXCEPT !.pc = "a_commit", !.adjType = type,
                             !.items = <<Item(pid, quantity, 0)>>,
                             !.productMap = [x \in {pid} |-> products[pid]],
                             !.readAt = Len(stockLogs)]]
    /\ UNCHANGED <<products, sales, stockLogs, shops, now, returns>>

\* prisma.$transaction([product.update, stockLog.create]): one atomic batch
AdjustCommit(p) ==
    /\ req[p].pc = "a_commit"
    /\ LET r == req[p]
           item == r.items[1]
           product == r.productMap[item.productId]
           newQty == product.quantity + item.quantity
       IN /\ ProductFree(p, item.productId)
          /\ products' = [products EXCEPT ![item.productId].quantity = newQty]
          /\ stockLogs' = Append(stockLogs,
                StockLog(r.shopId, item.productId, r.adjType, item.quantity,
                         product.quantity, newQty, <<>>))
          /\ req' = [req EXCEPT ![p].pc = "a_usage"]
    /\ UNCHANGED <<sales, shops, nreq, now, returns>>

\* the batch fails: neither statement takes effect
AdjustFail(p) ==
    /\ req[p].pc = "a_commit"
    /\ req' = [req EXCEPT ![p] = Done(req[p], "TransactionFailed")]
    /\ UNCHANGED <<products, sales, stockLogs, shops, nreq, now, returns>>

AdjustUsage(p) ==
    /\ req[p].pc = "a_usage"
    /\ \/ /\ shops' = IncrementUsage(req[p].shopId, "stockMove", 1)
          /\ req' = [req EXCEPT ![p] = Done(req[p], "ok")]
       \/ /\ shops' = shops
          /\ req' = [req EXCEPT ![p] = Done(req[p], "UsageFailed")]
    /\ UNCHANGED <<products, sales, stockLogs, nreq, now, returns>>

-----------------------------------------------------------------------------
(* StockService.receive *)

ReceiveStart(p, shop, items) ==
    /\ CanStart(p)
    /\ nreq' = nreq + 1
    /\ LET ids == {items[i].productId : i \in DOMAIN items}
           found == FindProducts(shop, ids, FALSE)
           r0 == [Idle EXCEPT !.op = "receive", !.id = nreq + 1, !.shopId = shop]
       IN IF Cardinality(found) # Len(items)
          THEN req' = [req EXCEPT ![p] = Done(r0, "ProductNotFound")]
          ELSE req' = [req EXCEPT ![p] =
                  [r0 EXCEPT !.pc = "r_items", !.i = 1, !.items = items,
                             !.productMap = [pid \in found |-> products[pid]],
                             !.readAt = Len(stockLogs)]]
    /\ UNCHANGED <<products, sales, stockLogs, shops, now, returns>>

\* one round of the loop inside $transaction
ReceiveTxItem(p) ==
    /\ req[p].pc = "r_items"
    /\ LET r == req[p]
           item == r.items[r.i]
           product == r.productMap[item.productId]
           newQty == product.quantity + item.quantity
       IN IF item.quantity <= 0
          THEN req' = [req EXCEPT ![p] = Done(r, "QuantityNotPositive")]
          ELSE /\ ProductFree(p, item.productId)
               /\ req' = [req EXCEPT
                     ![p].pc = IF r.i = Len(r.items) THEN "r_commit" ELSE "r_items",
                     ![p].i = r.i + 1,
                     ![p].tx.qty = Append(@, <<item.productId, newQty>>),
                     ![p].tx.logs = Append(@,
                         StockLog(r.shopId, item.productId, "RESTOCK", item.quantity,
                                  product.quantity, newQty, <<>>))]
    /\ UNCHANGED <<products, sales, stockLogs, shops, nreq, now, returns>>

ReceiveCommit(p) ==
    /\ req[p].pc = "r_commit"
    /\ TxCommit(p)
    /\ req' = [req EXCEPT ![p].pc = "r_usage", ![p].tx = NoTx]
    /\ UNCHANGED <<shops, nreq, now, returns>>

\* for (i < items.length) await ShopService.incrementUsage(shopId, 'stockMove')
ReceiveUsage(p) ==
    /\ req[p].pc = "r_usage"
    /\ \E k \in 0..Len(req[p].items) :
          /\ shops' = IncrementUsage(req[p].shopId, "stockMove", k)
          /\ req' = [req EXCEPT ![p] =
                Done(req[p], IF k = Len(req[p].items) THEN "ok" ELSE "UsageFailed")]
    /\ UNCHANGED <<products, sales, stockLogs, nreq, now, returns>>

-----------------------------------------------------------------------------
(* ProductService.update *)

UpdateStart(p, shop, pid, data) ==
    /\ CanStart(p)
    /\ nreq' = nreq + 1
    /\ LET r0 == [Idle EXCEPT !.op = "update", !.id = nreq + 1, !.shopId = shop]
       IN IF FindProducts(shop, {pid}, FALSE) = {}
          THEN req' = [req EXCEPT ![p] = Done(r0, "ProductNotFound")]
          ELSE req' = [req EXCEPT ![p] = [r0 EXCEPT !.pc = "u_write", !.productId = pid,
                                                    !.data = data]]
    /\ UNCHANGED <<products, sales, stockLogs, shops, now, returns>>

\* prisma.product.update({ where: { id }, data: { ...data } })
UpdateWrite(p) ==
    /\ req[p].pc = "u_write"
    /\ LET r == req[p]
           row == products[r.productId]
       IN /\ ProductFree(p, r.productId)
          /\ products' = [products EXCEPT ![r.productId] =
                [f \in DOMAIN row |-> IF f \in DOMAIN r.data THEN r.data[f] ELSE row[f]]]
          /\ req' = [req EXCEPT ![p] = Done(r, "ok")]
    /\ UNCHANGED <<sales, stockLogs, shops, nreq, now, returns>>

-----------------------------------------------------------------------------
(* ReturnController *)

ReturnItem(pid, q, restockable) ==
    [productId |-> pid, quantity |-> q, restockable |-> restockable, restocked |-> FALSE]

ExchangeItem(pid, q) == [productId |-> pid, quantity |-> q]

\* create: one prisma.return.create with its items and exchange items; the
\* product ids come from the request body as they are
ReturnCreate(p, shop, items, exchangeItems) ==
    /\ CanStart(p)
    /\ nreq' = nreq + 1
    /\ returns' = Append(returns,
          [id |-> nreq + 1, shopId |-> shop, status |-> "PENDING",
           items |-> items, exchangeItems |-> exchangeItems])
    /\ req' = [req EXCEPT ![p] =
          Done([Idle EXCEPT !.op = "return", !.id = nreq + 1, !.shopId = shop], "ok")]
    /\ UNCHANGED <<products, sales, stockLogs, shops, now>>

\* where process goes after the items before index i: the next item that is
\* restockable and not restocked, else the exchange items, else the update
AfterItem(r, i) ==
    LET rec == r.returnRecord
        todo == {j \in DOMAIN rec.items :
                    j >= i /\ rec.items[j].restockable /\ ~rec.items[j].restocked}
    IN IF todo # {} THEN [r EXCEPT !.pc = "p_restock", !.i = Min(todo)]
       ELSE IF Len(rec.exchangeItems) > 0 THEN [r EXCEPT !.pc = "p_exchange", !.i = 1]
       ELSE [r EXCEPT !.pc = "p_update", !.i = 0]

NewStatus(action) ==
    CASE action = "approve" -> "APPROVED"
      [] action = "reject" -> "REJECTED"
      [] action = "complete" -> "COMPLETED"

\* process: prisma.return.findFirst({ id, shopId }, include items, exchangeItems)
ProcessStart(p, shop, rid, action) ==
    /\ CanStart(p)
    /\ nreq' = nreq + 1
    /\ LET r0 == [Idle EXCEPT !.op = "process", !.id = nreq + 1, !.shopId = shop]
           found == {k \in DOMAIN returns : returns[k].id = rid /\ returns[k].shopId = shop}
       IN IF found = {}
          THEN req' = [req EXCEPT ![p] = Done(r0, "ReturnNotFound")]
          ELSE LET r1 == [r0 EXCEPT !.returnRecord = returns[CHOOSE k \in found : TRUE],
                                    !.action = action]
               IN req' = [req EXCEPT ![p] =
                      IF action = "complete" THEN AfterItem(r1, 1)
                      ELSE [r1 EXCEPT !.pc = "p_update"]]
    /\ UNCHANGED <<products, sales, stockLogs, shops, now, returns>>

\* prisma.product.update({ where: { id }, data: { quantity: { increment } } })
ProcessRestock(p) ==
    /\ req[p].pc = "p_restock"
    /\ LET item == req[p].returnRecord.items[req[p].i]
       IN /\ ProductFree(p, item.productId)
          /\ products' = [products EXCEPT ![item.productId].quantity = @ + item.quantity]
    /\ req' = [req EXCEPT ![p].pc = "p_mark"]
    /\ UNCHANGED <<sales, stockLogs, shops, nreq, now, returns>>

\* prisma.returnItem.update({ where: { id }, data: { restocked: true } })
ProcessMark(p) ==
    /\ req[p].pc = "p_mark"
    /\ returns' = [k \in DOMAIN returns |->
          IF returns[k].id = req[p].returnRecord.id
          THEN [returns[k] EXCEPT !.items[req[p].i].restocked = TRUE]
          ELSE returns[k]]
    /\ req' = [req EXCEPT ![p].pc = "p_log"]
    /\ UNCHANGED <<products, sales, stockLogs, shops, nreq, now>>

\* prisma.stockLog.create({ type: 'RETURN', previousQty: 0, newQty: 0, reference })
ProcessLog(p) ==
    /\ req[p].pc = "p_log"
    /\ LET r == req[p]
           item == r.returnRecord.items[r.i]
       IN /\ stockLogs' = Append(stockLogs,
                StockLog(r.shopId, item.productId, "RETURN", item.quantity, 0, 0,
                         <<r.returnRecord.id>>))
          /\ req' = [req EXCEPT ![p] = AfterItem(r, r.i + 1)]
    /\ UNCHANGED <<products, sales, shops, nreq, now, returns>>

\* prisma.product.update({ where: { id }, data: { quantity: { decrement } } })
ProcessExchange(p) ==
    /\ req[p].pc = "p_exchange"
    /\ LET r == req[p]
           item == r.returnRecord.exchangeItems[r.i]
       IN /\ ProductFree(p, item.productId)
          /\ products' = [products EXCEPT ![item.productId].quantity = @ - item.quantity]
          /\ req' = [req EXCEPT
                ![p].pc = IF r.i = Len(r.returnRecord.exchangeItems) THEN "p_update"
                          ELSE "p_exchange",
                ![p].i = r.i + 1]
    /\ UNCHANGED <<sales, stockLogs, shops, nreq, now, returns>>

\* prisma.return.update({ where: { id }, data: { status: newStatus } })
ProcessUpdate(p) ==
    /\ req[p].pc = "p_update"
    /\ returns' = [k \in DOMAIN returns |->
          IF returns[k].id = req[p].returnRecord.id
          THEN [returns[k] EXCEPT !.status = NewStatus(req[p].action)]
          ELSE returns[k]]
    /\ req' = [req EXCEPT ![p] = Done(req[p], "ok")]
    /\ UNCHANGED <<products, sales, stockLogs, shops, nreq, now>>

\* a statement of process fails: the handler answers a server error and what
\* the statements before it wrote stays
ProcessFail(p) ==
    /\ req[p].pc \in {"p_restock", "p_mark", "p_log", "p_exchange", "p_update"}
    /\ req' = [req EXCEPT ![p] = Done(req[p], "ServerError")]
    /\ UNCHANGED <<products, sales, stockLogs, shops, nreq, now, returns>>

-----------------------------------------------------------------------------
(* The server clock *)

\* Time passes between requests: a handler reads the clock once, so a tick
\* while it runs is a tick before or after it.
Tick ==
    /\ now < MaxNow
    /\ \A p \in Procs : req[p].pc \in {"idle", "done"}
    /\ now' = now + 1
    /\ UNCHANGED <<products, sales, stockLogs, shops, req, nreq, returns>>

-----------------------------------------------------------------------------

\* The shop has its catalog and has already sold one unit of P1 (sale 0).
FirstItem == Item("P1", 1, 0)

FirstSale ==
    LET si == SaleItem(Catalog["P1"], FirstItem)
        total == TotalAmount(si.totalPrice, 0, 0)
    IN [id |-> 0, shopId |-> "A", receiptNumber |-> <<DateStr(0), 1>>,
        subtotal |-> si.totalPrice, discount |-> 0, tax |-> 0,
        totalAmount |-> total, amountPaid |-> total, change |-> 0,
        status |-> "COMPLETED", voidReason |-> "", createdAt |-> 0, items |-> <<si>>]

Init ==
    /\ products = [Catalog EXCEPT !["P1"].quantity = @ - FirstItem.quantity]
    /\ sales = <<FirstSale>>
    /\ stockLogs = Append(InitialLogs,
            StockLog("A", "P1", "SALE", -FirstItem.quantity, Catalog["P1"].quantity,
                     Catalog["P1"].quantity - FirstItem.quantity, <<0>>))
    /\ shops = [s \in ShopIds |->
            [monthlyTransactions |-> IF s = "A" THEN 1 ELSE 0, monthlyStockMoves |-> 0]]
    /\ req = [p \in Procs |-> Idle]
    /\ nreq = 0
    /\ now = 0
    /\ returns = <<>>

SaleIds == 0..MaxRequests

\* Requests of the concurrent engine: shop A's carts of undiscounted lines, a
\* payment that covers none of them and one that covers all.
Carts ==
    {<<Item("P1", q, 0)>> : q \in 1..MaxQty}
    \cup {<<Item("P1", 1, 0), Item("P2", 1, 0)>>, <<Item("P4", 1, 0)>>}

Payments == {5, 100}

Engine(p) ==
    \/ \E c \in Carts, a \in Payments : CreateStart(p, "A", c, a, 0)
    \/ CreateTxBegin(p)
    \/ CreateTxItem(p)
    \/ CreateCommit(p)
    \/ CreateUsage(p)
    \/ \E sid \in SaleIds : VoidStart(p, "A", sid, "reason")
    \/ VoidTxBegin(p)
    \/ VoidTxRead(p)
    \/ VoidTxItem(p)
    \/ VoidCommit(p)
    \/ \E q \in {-1, 1} : AdjustStart(p, "A", "P1", "ADJUSTMENT", q)
    \/ AdjustCommit(p)
    \/ AdjustFail(p)
    \/ AdjustUsage(p)
    \/ \E q \in 1..MaxQty : ReceiveStart(p, "A", <<Item("P1", q, 0)>>)
    \/ ReceiveTxItem(p)
    \/ ReceiveCommit(p)
    \/ ReceiveUsage(p)
    \/ TxFail(p)

Next == \E p \in Procs : Engine(p)

Spec == Init /\ [][Next]_vars

\* The engine together with direct edits of the catalog.
UpdateData == {[quantity |-> InitQty]}

NextCatalog ==
    \E p \in Procs :
        \/ Engine(p)
        \/ \E d \in UpdateData : UpdateStart(p, "A", "P1", d)
        \/ UpdateWrite(p)

SpecCatalog == Init /\ [][NextCatalog]_vars

\* One request at a time: discounted lines, sale discounts, payments, and
\* price edits between the sales.
LineDiscounts == {0, 20}

SaleDiscounts == {0, 3}

PricingCarts ==
    {<<Item(pid, q, d)>> : pid \in {"P1", "P3"}, q \in 1..MaxQty, d \in LineDiscounts}

PricingPayments == {5, 40}

\* a price edit of the catalog
PriceData == {[sellPrice |-> 9, costPrice |-> 6]}

NextPricing ==
    \/ \E c \in PricingCarts, a \in PricingPayments, d \in SaleDiscounts :
          CreateStart(1, "A", c, a, d)
    \/ CreateTxBegin(1)
    \/ CreateTxItem(1)
    \/ CreateCommit(1)
    \/ CreateUsage(1)
    \/ \E sid \in SaleIds : VoidStart(1, "A", sid, "reason")
    \/ VoidTxBegin(1)
    \/ VoidTxRead(1)
    \/ VoidTxItem(1)
    \/ VoidCommit(1)
    \/ TxFail(1)
    \/ \E d \in PriceData : UpdateStart(1, "A", "P1", d)
    \/ UpdateWrite(1)

SpecPricing == Init /\ [][NextPricing]_vars

\* One request at a time, as the days pass: both shops sell and void, stock is
\* adjusted, carts repeat a product or hold one that does not track stock.
SerialCarts ==
    {<<Item(pid, q, 0)>> : pid \in {"P1", "P3"}, q \in 1..MaxQty}
    \cup {<<Item("P1", 1, 0), Item("P1", 1, 0)>>, <<Item("P2", 1, 0), Item("P2", 1, 0)>>,
          <<Item("P1", 1, 0), Item("P2", 1, 0)>>}

\* a payment that covers every cart
SerialPayment == 100

AdjustTypes == {"ADJUSTMENT", "DAMAGED"}

AdjustDeltas == {-1, 1}

NextSerial ==
    \/ \E c \in SerialCarts : CreateStart(1, "A", c, SerialPayment, 0)
    \/ CreateStart(1, "B", <<Item("P4", 1, 0)>>, SerialPayment, 0)
    \/ CreateTxBegin(1)
    \/ CreateTxItem(1)
    \/ CreateCommit(1)
    \/ CreateUsage(1)
    \/ \E shop \in ShopIds, sid \in SaleIds : VoidStart(1, shop, sid, "reason")
    \/ VoidTxBegin(1)
    \/ VoidTxRead(1)
    \/ VoidTxItem(1)
    \/ VoidCommit(1)
    \/ \E t \in AdjustTypes, q \in AdjustDeltas : AdjustStart(1, "A", "P1", t, q)
    \/ AdjustCommit(1)
    \/ AdjustFail(1)
    \/ AdjustUsage(1)
    \/ TxFail(1)
    \/ Tick

SpecSerial == Init /\ [][NextSerial]_vars

\* Shop A files and processes returns beside the engine, naming products and
\* sales of both shops; shop B sells.
ReturnBodies ==
    {[items |-> <<ReturnItem("P1", 1, TRUE)>>, exchangeItems |-> <<>>],
     [items |-> <<ReturnItem("P4", 1, TRUE)>>, exchangeItems |-> <<>>],
     [items |-> <<ReturnItem("P1", 1, FALSE)>>, exchangeItems |-> <<ExchangeItem("P2", 1)>>]}

ReturnIds == 1..MaxRequests

ReturnActions == {"approve", "reject", "complete"}

NextReturns ==
    \E p \in Procs :
        \/ \E b \in ReturnBodies : ReturnCreate(p, "A", b.items, b.exchangeItems)
        \/ \E rid \in ReturnIds, a \in ReturnActions : ProcessStart(p, "A", rid, a)
        \/ ProcessRestock(p)
        \/ ProcessMark(p)
        \/ ProcessLog(p)
        \/ ProcessExchange(p)
        \/ ProcessUpdate(p)
        \/ ProcessFail(p)
        \/ \E pid \in {"P1", "P4"} : CreateStart(p, "A", <<Item(pid, 1, 0)>>, SerialPayment, 0)
        \/ CreateStart(p, "B", <<Item("P4", 1, 0)>>, SerialPayment, 0)
        \/ CreateTxBegin(p)
        \/ CreateTxItem(p)
        \/ CreateCommit(p)
        \/ CreateUsage(p)
        \/ \E sid \in SaleIds : VoidStart(p, "A", sid, "reason")
        \/ VoidTxBegin(p)
        \/ VoidTxRead(p)
        \/ VoidTxItem(p)
        \/ VoidCommit(p)
        \/ \E pid \in {"P1", "P4"} : AdjustStart(p, "A", pid, "ADJUSTMENT", 1)
        \/ AdjustCommit(p)
        \/ AdjustFail(p)
        \/ AdjustUsage(p)
        \/ \E pid \in {"P1", "P4"} : ReceiveStart(p, "A", <<Item(pid, 1, 0)>>)
        \/ ReceiveTxItem(p)
        \/ ReceiveCommit(p)
        \/ ReceiveUsage(p)
        \/ TxFail(p)

SpecReturns == Init /\ [][NextReturns]_vars

\* One request at a time at the stock desk: batches that repeat a product,
\* name a product of the other shop or carry a quantity that is not positive,
\* between sales and voids.
ReceiveBatches ==
    {<<Item("P1", q, 0)>> : q \in 1..MaxQty}
    \cup {<<Item("P1", 1, 0), Item("P2", 1, 0)>>, <<Item("P1", 1, 0), Item("P1", 1, 0)>>,
          <<Item("P1", 1, 0), Item("P4", 1, 0)>>, <<Item("P1", 1, 0), Item("P2", 0, 0)>>}

NextReceive ==
    \/ \E b \in ReceiveBatches : ReceiveStart(1, "A", b)
    \/ ReceiveTxItem(1)
    \/ ReceiveCommit(1)
    \/ ReceiveUsage(1)
    \/ \E c \in Carts : CreateStart(1, "A", c, SerialPayment, 0)
    \/ CreateTxBegin(1)
    \/ CreateTxItem(1)
    \/ CreateCommit(1)
    \/ CreateUsage(1)
    \/ \E sid \in SaleIds : VoidStart(1, "A", sid, "reason")
    \/ VoidTxBegin(1)
    \/ VoidTxRead(1)
    \/ VoidTxItem(1)
    \/ VoidCommit(1)
    \/ TxFail(1)

SpecReceive == Init /\ [][NextReceive]_vars

\* The sale routes as the router serves them, one request at a time.
NextRoutes ==
    \/ \E c \in Carts, a \in Payments : PostSale(1, "A", c, a, 0)
    \/ CreateTxBegin(1)
    \/ CreateTxItem(1)
    \/ CreateCommit(1)
    \/ CreateUsage(1)
    \/ \E sid \in SaleIds : VoidStart(1, "A", sid, "reason")
    \/ VoidTxBegin(1)
    \/ VoidTxRead(1)
    \/ VoidTxItem(1)
    \/ VoidCommit(1)
    \/ TxFail(1)

SpecRoutes == Init /\ [][NextRoutes]_vars

\* One request at a time, with the trackStock flag of a product edited between
\* the sales and the voids.
FlagData == {[trackStock |-> b] : b \in BOOLEAN}

NextFlags ==
    \/ \E pid \in {"P1", "P3"}, q \in 1..MaxQty :
          CreateStart(1, "A", <<Item(pid, q, 0)>>, SerialPayment, 0)
    \/ CreateTxBegin(1)
    \/ CreateTxItem(1)
    \/ CreateCommit(1)
    \/ CreateUsage(1)
    \/ \E sid \in SaleIds : VoidStart(1, "A", sid, "reason")
    \/ VoidTxBegin(1)
    \/ VoidTxRead(1)
    \/ VoidTxItem(1)
    \/ VoidCommit(1)
    \/ TxFail(1)
    \/ \E pid \in {"P1", "P3"}, d \in FlagData : UpdateStart(1, "A", pid, d)
    \/ UpdateWrite(1)

SpecFlags == Init /\ [][NextFlags]_vars

\* The returns desk: the customer of sale 0 has filed a return of the unit of
\* P1 in exchange for a unit of P2, and the desk processes it, one or two
\* requests at a time.
FirstReturn ==
    [id |-> MaxRequests + 1, shopId |-> "A", status |-> "PENDING",
     items |-> <<ReturnItem("P1", 1, TRUE)>>, exchangeItems |-> <<ExchangeItem("P2", 1)>>]

InitDesk ==
    /\ products = [Catalog EXCEPT !["P1"].quantity = @ - FirstItem.quantity]
    /\ sales = <<FirstSale>>
    /\ stockLogs = Append(InitialLogs,
            StockLog("A", "P1", "SALE", -FirstItem.quantity, Catalog["P1"].quantity,
                     Catalog["P1"].quantity - FirstItem.quantity, <<0>>))
    /\ shops = [s \in ShopIds |->
            [monthlyTransactions |-> IF s = "A" THEN 1 ELSE 0, monthlyStockMoves |-> 0]]
    /\ req = [p \in Procs |-> Idle]
    /\ nreq = 0
    /\ now = 0
    /\ returns = <<FirstReturn>>

NextDesk ==
    \E p \in Procs :
        \/ \E a \in ReturnActions : ProcessStart(p, "A", FirstReturn.id, a)
        \/ ProcessRestock(p)
        \/ ProcessMark(p)
        \/ ProcessLog(p)
        \/ ProcessExchange(p)
        \/ ProcessUpdate(p)
        \/ ProcessFail(p)

SpecDesk == InitDesk /\ [][NextDesk]_vars

-----------------------------------------------------------------------------
(* Properties *)

LogSum(Keep(_)) ==
    LET RECURSIVE Go(_)
        Go(i) == IF i > Len(stockLogs) THEN 0
                 ELSE (IF Keep(stockLogs[i]) THEN stockLogs[i].quantity ELSE 0) + Go(i + 1)
    IN Go(1)

\* sum of the deltas of every ledger entry of a product, INITIAL included
LedgerSum(pid) == LogSum(LAMBDA e : e.productId = pid)

\* sum of the RETURN deltas that refer to a sale
ReturnSum(sid) == LogSum(LAMBDA e : e.type = "RETURN" /\ e.reference = <<sid>>)

\* units of a sale on lines of products that track stock
TrackedUnits(sale) ==
    SeqSum([i \in DOMAIN sale.items |->
               IF products[sale.items[i].productId].trackStock
               THEN sale.items[i].quantity ELSE 0])

\* units of product pid a handler's cart asks for
Wants(p, pid) ==
    SeqSum([i \in DOMAIN req[p].items |->
               IF req[p].items[i].productId = pid THEN req[p].items[i].quantity ELSE 0])

Committed(p) == req[p].op = "create" /\ req[p].pc = "c_usage"

\* C1: every product that tracks stock has a quantity equal to the sum of the
\* deltas of all its ledger entries, under any interleaving of create,
\* voidSale, adjust and receive.
C1_QuantityEqualsLedger ==
    \A pid \in ProductIds :
        products[pid].trackStock => products[pid].quantity = LedgerSum(pid)

\* C2: of two createSale calls that read the same stock of a tracked product
\* and together ask for more than it, exactly one commits: never both, so the
\* units they sell never exceed the stock that was available.
C2_OnlyOneOfTwoCommits ==
    \A p, q \in Procs, pid \in ProductIds :
        ( /\ p # q
          /\ req[p].op = "create" /\ req[q].op = "create"
          /\ pid \in DOMAIN req[p].productMap /\ pid \in DOMAIN req[q].productMap
          /\ req[p].productMap[pid].trackStock
          /\ req[p].readAt = req[q].readAt
          /\ Wants(p, pid) + Wants(q, pid) > req[p].productMap[pid].quantity )
        => ~(Committed(p) /\ Committed(q))

\* C3: for every sale, the RETURN deltas that refer to it sum to the units of
\* its tracked lines once it is voided and to nothing before: stock is
\* credited back exactly once, whatever voidSale calls run on it.
C3_CreditedBackOnce ==
    \A k \in DOMAIN sales :
        ReturnSum(sales[k].id) =
            IF sales[k].status = "VOIDED" THEN TrackedUnits(sales[k]) ELSE 0

\* C4: no two sales of the same shop have the same receipt number.
C4_ReceiptNumbersUnique ==
    \A j, k \in DOMAIN sales :
        (j # k /\ sales[j].shopId = sales[k].shopId)
            => sales[j].receiptNumber # sales[k].receiptNumber

\* ledger entries a step appends
NewLogs == SubSeq(stockLogs', Len(stockLogs) + 1, Len(stockLogs'))

HasSale(ss, sid) == \E k \in DOMAIN ss : ss[k].id = sid

\* In every step the sale rows, ledger entries and quantity writes of a
\* createSale or voidSale become visible together.
C5_Paired ==
    LET new == Range(NewLogs) IN
    /\ Len(stockLogs') >= Len(stockLogs)
    /\ \A e \in new : e.type \in {"SALE", "RETURN"} =>
          /\ products'[e.productId].quantity = e.newQty
          /\ \E k \in DOMAIN sales' :
                /\ sales'[k].id = e.reference[1]
                /\ IF e.type = "SALE" THEN k \notin DOMAIN sales
                   ELSE sales'[k].status = "VOIDED"
    /\ \A k \in DOMAIN sales' :
          (k \notin DOMAIN sales \/ sales'[k].status # sales[k].status) =>
              \A i \in DOMAIN sales'[k].items :
                  LET it == sales'[k].items[i] IN
                  products'[it.productId].trackStock =>
                      \E e \in new :
                          /\ e.productId = it.productId
                          /\ e.reference = <<sales'[k].id>>
                          /\ e.type = (IF k \in DOMAIN sales THEN "RETURN" ELSE "SALE")
                          /\ e.quantity = (IF k \in DOMAIN sales THEN it.quantity ELSE -it.quantity)
    /\ \A pid \in ProductIds :
          products'[pid].quantity # products[pid].quantity =>
              \E e \in new : e.productId = pid /\ e.newQty = products'[pid].quantity

\* A createSale or voidSale whose transaction fails leaves the tables as they
\* were, with no row of the call in them.
C5_FailClean ==
    \A p \in Procs :
        ( /\ req[p].op \in {"create", "void"}
          /\ req[p].pc # "done"
          /\ req'[p].pc = "done"
          /\ req'[p].result = "TransactionFailed" )
        => /\ db' = db
           /\ req[p].op = "create" =>
                 /\ ~HasSale(sales', req[p].id)
                 /\ \A k \in DOMAIN stockLogs' : stockLogs'[k].reference # <<req[p].id>>
           /\ req[p].op = "void" =>
                 \A k \in DOMAIN sales' :
                     sales'[k].id = req[p].saleId => sales'[k] = sales[k]

\* C5: createSale and voidSale are all-or-nothing: a failed commit leaves no
\* sale row, status change, quantity change or ledger entry, and no state that
\* another request can read has a ledger entry without its quantity write or a
\* quantity change without its ledger entry.
C5_AllOrNothing == [][C5_Paired /\ C5_FailClean]_vars

\* a two-line sale is half written inside its transaction and nothing of it
\* can be read: no sale row, no ledger entry, the quantity as it was
C5_Witness ==
    \E p \in Procs :
        /\ req[p].op = "create"
        /\ req[p].pc = "c_items"
        /\ Len(req[p].tx.logs) = 1
        /\ ~HasSale(sales, req[p].id)
        /\ \A k \in DOMAIN stockLogs : stockLogs[k].reference # <<req[p].id>>
        /\ products[req[p].tx.qty[1][1]].quantity # req[p].tx.qty[1][2]

ValidationErrors == {"ProductNotFound", "InsufficientStock", "InsufficientPayment"}

NoTraceOf(ss, logs, id) ==
    /\ ~HasSale(ss, id)
    /\ \A k \in DOMAIN logs : logs[k].reference # <<id>>

\* C6: a createSale that fails because a product is not found, stock is
\* insufficient or payment is insufficient creates no Sale and no SaleItem,
\* appends no ledger entry and changes no quantity.
C6_FailedCreateNoEffect ==
    [][\A p \in Procs :
          ( /\ req'[p] # req[p]
            /\ req'[p].op = "create"
            /\ req'[p].pc = "done"
            /\ req'[p].result \in ValidationErrors )
          => /\ db' = db
             /\ NoTraceOf(sales', stockLogs', req'[p].id)]_vars

\* one cart was rejected for stock and another for payment, and neither left a row
C6_Witness ==
    \E p, q \in Procs :
        /\ req[p].op = "create" /\ req[p].result = "InsufficientStock"
        /\ req[q].op = "create" /\ req[q].result = "InsufficientPayment"
        /\ NoTraceOf(sales, stockLogs, req[p].id)
        /\ NoTraceOf(sales, stockLogs, req[q].id)

\* C7: every step that changes a product's quantity appends, in the same step,
\* a ledger entry for that product whose delta equals the quantity change.
C7_EveryChangeLogged ==
    [][\A pid \in ProductIds :
          products'[pid].quantity # products[pid].quantity =>
              \E e \in Range(NewLogs) :
                  /\ e.productId = pid
                  /\ e.quantity = products'[pid].quantity - products[pid].quantity]_vars

TotalsHold(sale) ==
    /\ sale.totalAmount = sale.subtotal - sale.discount + sale.tax
    /\ sale.change = sale.amountPaid - sale.totalAmount
    /\ sale.change >= 0

Amounts(sale) ==
    <<sale.subtotal, sale.discount, sale.tax, sale.totalAmount, sale.amountPaid, sale.change>>

\* C8: every persisted sale has totalAmount = subtotal - discount + tax and
\* change = amountPaid - totalAmount >= 0, and no step changes these fields
\* of a sale that exists, voiding included.
C8_TotalsHoldAndStay ==
    /\ [](\A k \in DOMAIN sales : TotalsHold(sales[k]))
    /\ [][\A k \in DOMAIN sales :
             /\ k \in DOMAIN sales'
             /\ sales'[k].id = sales[k].id
             /\ Amounts(sales'[k]) = Amounts(sales[k])]_vars

\* a sale with a sale discount and change to hand back has been voided
C8_Witness ==
    \E k \in DOMAIN sales :
        /\ sales[k].discount > 0
        /\ sales[k].change > 0
        /\ sales[k].status = "VOIDED"

\* C9: every persisted sale has non-negative subtotal, discount, tax,
\* totalAmount, amountPaid and change, and every item a non-negative totalPrice.
C9_AmountsNonNegative ==
    \A k \in DOMAIN sales :
        /\ \A j \in DOMAIN Amounts(sales[k]) : Amounts(sales[k])[j] >= 0
        /\ \A i \in DOMAIN sales[k].items : sales[k].items[i].totalPrice >= 0

\* C10: every product that tracks stock has quantity >= 0, under any
\* interleaving of create, voidSale, adjust and receive.
C10_QuantityNonNegative ==
    \A pid \in ProductIds : products[pid].trackStock => products[pid].quantity >= 0

\* concurrent requests have lost an update (the ledger balance of P1 is below
\* zero) and the stored quantity is at its floor
C10_Witness ==
    /\ products["P1"].quantity = 0
    /\ LedgerSum("P1") < 0

\* the step is the commit of a voidSale of sale sid
IsVoidCommitOf(sid) ==
    \E p \in Procs :
        /\ req[p].op = "void" /\ req[p].pc = "v_commit" /\ req[p].saleId = sid
        /\ req'[p].pc = "done" /\ req'[p].result = "ok"

\* C11: every sale is first persisted COMPLETED; the only status change of a
\* sale is COMPLETED -> VOIDED, made by the commit of a voidSale of that sale;
\* a VOIDED sale stays VOIDED; and a sale has a voidReason only if it is VOIDED.
C11_StatusMachine ==
    /\ [](\A k \in DOMAIN sales :
            /\ sales[k].status \in {"COMPLETED", "VOIDED"}
            /\ sales[k].voidReason # "" => sales[k].status = "VOIDED")
    /\ [][\A k \in DOMAIN sales' :
            IF k \notin DOMAIN sales
            THEN sales'[k].status = "COMPLETED"
            ELSE /\ sales'[k].id = sales[k].id
                 /\ sales[k].status = "VOIDED" => sales'[k].status = "VOIDED"
                 /\ sales'[k].status # sales[k].status =>
                       /\ sales[k].status = "COMPLETED"
                       /\ sales'[k].status = "VOIDED"
                       /\ IsVoidCommitOf(sales[k].id)]_vars

\* the earlier sale has been voided with its reason and a sale made by a later
\* request is COMPLETED with none
C11_Witness ==
    \E j, k \in DOMAIN sales :
        /\ sales[j].status = "VOIDED" /\ sales[j].voidReason = "reason"
        /\ j < k
        /\ sales[k].status = "COMPLETED" /\ sales[k].voidReason = ""


\* the sale a voidSale call names exists, is the caller's and is COMPLETED
Voidable(shop, sid) ==
    \E k \in DOMAIN sales :
        sales[k].id = sid /\ sales[k].shopId = shop /\ sales[k].status = "COMPLETED"

\* C12: a voidSale call on a sale that does not exist, belongs to another shop
\* or is already VOIDED fails with 'Sale not found or already voided' and
\* leaves every sale, every quantity and the ledger as they were: only a call
\* on a COMPLETED sale of the caller's shop goes on to its transaction.
C12_VoidRejected ==
    [][\A p \in Procs :
          ( /\ req[p].pc \in {"idle", "done"}
            /\ req'[p] # req[p]
            /\ req'[p].op = "void" )
          => IF Voidable(req'[p].shopId, req'[p].saleId)
             THEN req'[p].pc = "v_begin"
             ELSE /\ req'[p].pc = "done"
                  /\ req'[p].result = "NotFoundOrVoided"
                  /\ db' = db]_vars

\* shop A's earlier sale is VOIDED, credited back once, and a further
\* voidSale call on it has been rejected
C12_Witness ==
    /\ sales[1].status = "VOIDED"
    /\ ReturnSum(sales[1].id) = TrackedUnits(sales[1])
    /\ req[1].op = "void"
    /\ req[1].saleId = sales[1].id
    /\ req[1].result = "NotFoundOrVoided"


\* the latest ledger entry of a product
LastLog(pid) ==
    stockLogs[CHOOSE k \in DOMAIN stockLogs :
                 /\ stockLogs[k].productId = pid
                 /\ \A j \in DOMAIN stockLogs : stockLogs[j].productId = pid => j <= k]

TrackedLines(sale) ==
    {i \in DOMAIN sale.items : products[sale.items[i].productId].trackStock}

\* nothing has moved the stock of the sale's products since the sale: the
\* latest ledger entry of each is the SALE entry of this sale
Untouched(sale) ==
    \A i \in TrackedLines(sale) :
        LET e == LastLog(sale.items[i].productId)
        IN e.type = "SALE" /\ e.reference = <<sale.id>>

\* C13: voidSale of a sale whose products no other operation has moved since
\* the sale puts every tracked product back at its pre-sale quantity and
\* appends exactly one RETURN entry per tracked line: delta = +line quantity,
\* previousQty = post-sale quantity, newQty = pre-sale quantity, reference =
\* the sale id.
C13_VoidRestores ==
    [][\A k \in DOMAIN sales :
          (IsVoidCommitOf(sales[k].id) /\ Untouched(sales[k])) =>
              /\ Len(NewLogs) = Cardinality(TrackedLines(sales[k]))
              /\ \A i \in TrackedLines(sales[k]) :
                    LET item == sales[k].items[i]
                        sold == LastLog(item.productId)
                    IN /\ sold.quantity = -item.quantity
                       /\ products[item.productId].quantity = sold.newQty
                       /\ products'[item.productId].quantity = sold.previousQty
                       /\ \E j \in DOMAIN NewLogs :
                             NewLogs[j] = StockLog(sales[k].shopId, item.productId, "RETURN",
                                                   item.quantity, sold.newQty,
                                                   sold.previousQty, <<sales[k].id>>)]_vars

\* a two-line sale made by a request has been voided right after it: both
\* products are back at their pre-sale quantities and the ledger ends with the
\* two RETURN entries
C13_Witness ==
    \E k \in DOMAIN sales :
        /\ sales[k].id > 0
        /\ sales[k].status = "VOIDED"
        /\ Len(sales[k].items) = 2
        /\ products["P1"].quantity = InitQty - 1
        /\ products["P2"].quantity = InitQty
        /\ LastLog("P1") = StockLog("A", "P1", "RETURN", 1, InitQty - 2, InitQty - 1, <<sales[k].id>>)
        /\ LastLog("P2") = StockLog("A", "P2", "RETURN", 1, InitQty - 1, InitQty, <<sales[k].id>>)


\* single-line carts of a product that tracks stock
SingleLineCarts == {c \in SerialCarts : Len(c) = 1 /\ Catalog[c[1].productId].trackStock}

\* C14: with one request at a time, a single-line createSale of a tracked
\* product, fully paid, is accepted if and only if the requested quantity is
\* at most the product's quantity; rejected, it answers InsufficientStock and
\* changes nothing; committed, it leaves quantity - requested and appends
\* exactly one SALE entry {-requested, quantity, quantity - requested}.
C14_SingleLineSale ==
    [][/\ \A c \in SingleLineCarts :
             CreateStart(1, "A", c, SerialPayment, 0) =>
                 IF c[1].quantity <= products[c[1].productId].quantity
                 THEN req'[1].pc = "c_begin"
                 ELSE /\ req'[1].pc = "done"
                      /\ req'[1].result = "InsufficientStock"
                      /\ db' = db
       /\ \A p \in Procs :
             ( /\ req[p].op = "create" /\ req[p].pc = "c_commit" /\ req'[p].pc = "c_usage"
               /\ req[p].items \in SingleLineCarts )
             => LET item == req[p].items[1]
                    quantity == products[item.productId].quantity
                IN /\ products'[item.productId].quantity = quantity - item.quantity
                   /\ quantity - item.quantity >= 0
                   /\ HasSale(sales', req[p].id)
                   /\ NewLogs = <<StockLog(req[p].shopId, item.productId, "SALE",
                                            -item.quantity, quantity,
                                            quantity - item.quantity, <<req[p].id>>)>>]_vars

\* a request sold the last of P1, leaving 0 with its SALE entry, and the next
\* request for P1 was rejected for stock
C14_Witness ==
    /\ products["P1"].quantity = 0
    /\ \E k \in DOMAIN sales :
          /\ sales[k].id > 0
          /\ LastLog("P1") = StockLog("A", "P1", "SALE", -(InitQty - 1), InitQty - 1, 0,
                                       <<sales[k].id>>)
    /\ req[1].op = "create"
    /\ req[1].result = "InsufficientStock"


\* carts with two lines for the same product
DuplicateCarts == {c \in SerialCarts : Len(c) = 2 /\ c[1].productId = c[2].productId}

\* C15: a cart with two lines for the same product is checked against their
\* combined quantity: within stock it is accepted and commits one SaleItem per
\* line with the quantity down by the combined quantity; beyond stock it is
\* rejected with InsufficientStock and nothing changes.
C15_DuplicateLines ==
    [][/\ \A c \in DuplicateCarts :
             CreateStart(1, "A", c, SerialPayment, 0) =>
                 IF c[1].quantity + c[2].quantity <= products[c[1].productId].quantity
                 THEN req'[1].pc = "c_begin"
                 ELSE /\ req'[1].pc = "done"
                      /\ req'[1].result = "InsufficientStock"
                      /\ db' = db
       /\ \A p \in Procs :
             ( /\ req[p].op = "create" /\ req[p].pc = "c_commit" /\ req'[p].pc = "c_usage"
               /\ req[p].items \in DuplicateCarts )
             => LET c == req[p].items
                    pid == c[1].productId
                IN /\ products'[pid].quantity =
                          products[pid].quantity - (c[1].quantity + c[2].quantity)
                   /\ \E k \in DOMAIN sales' :
                          sales'[k].id = req[p].id /\ Len(sales'[k].items) = 2]_vars


\* C16: when the usage increment fails after the sale transaction has
\* committed, the sale stays committed with its stock and ledger effects and
\* createSale still returns the sale: the call ends "ok" whether or not the
\* counter moved.
C16_UsageFailureIgnored ==
    [][\A p \in Procs :
          (req[p].op = "create" /\ req[p].pc = "c_usage" /\ req'[p].pc = "done")
          => /\ db' = db
             /\ HasSale(sales', req[p].id)
             /\ req'[p].result = "ok"]_vars


\* the shop in whose name process p takes the step
Caller(p) == IF req[p].pc \in {"idle", "done"} THEN req'[p].shopId ELSE req[p].shopId

\* C17: no step of a request made in one shop's name (createSale, voidSale,
\* adjust, receive, creating and processing a return) changes the quantity
\* of a product of another shop, appends a ledger entry for such a product, or
\* changes a sale of another shop.
C17_TenantIsolation ==
    [][\A p \in Procs :
          req'[p] # req[p] =>
              /\ \A pid \in ProductIds :
                    products[pid].shopId # Caller(p) =>
                        /\ products'[pid].quantity = products[pid].quantity
                        /\ \A e \in Range(NewLogs) : e.productId # pid
              /\ \A k \in DOMAIN sales :
                    sales[k].shopId # Caller(p) => sales'[k] = sales[k]]_vars


\* single-line carts of a product that does not track stock
UntrackedCarts == {c \in SerialCarts : Len(c) = 1 /\ ~Catalog[c[1].productId].trackStock}

\* C18: a createSale for a product with trackStock = false passes the stock
\* check whatever quantity it asks for, and no step of a createSale or a
\* voidSale changes the quantity of such a product or appends a ledger entry
\* for it.
C18_UntrackedExempt ==
    [][/\ \A c \in UntrackedCarts :
             CreateStart(1, "A", c, SerialPayment, 0) => req'[1].pc = "c_begin"
       /\ \A p \in Procs :
             (req'[p] # req[p] /\ (req[p].op \in {"create", "void"} \/ req'[p].op \in {"create", "void"}))
             => \A pid \in ProductIds :
                   ~products[pid].trackStock =>
                       /\ products'[pid].quantity = products[pid].quantity
                       /\ \A e \in Range(NewLogs) : e.productId # pid]_vars

\* a sale of more P3 than its quantity was committed and then voided: P3 is
\* where it was and the ledger has no entry for it
C18_Witness ==
    \E k \in DOMAIN sales :
        /\ sales[k].status = "VOIDED"
        /\ sales[k].items[1].productId = "P3"
        /\ sales[k].items[1].quantity > Catalog["P3"].quantity
        /\ products["P3"].quantity = Catalog["P3"].quantity
        /\ \A j \in DOMAIN stockLogs : stockLogs[j].productId # "P3"


\* C19: with one request at a time, the k-th sale a shop creates on a
\* (server-local) calendar day has sequence number k in its receipt number:
\* numbers start at 1 and go up by 1, a voided sale keeps its number, and the
\* sales of other shops do not count.
C19_ReceiptSequence ==
    \A k \in DOMAIN sales :
        sales[k].receiptNumber[2] =
            Cardinality({j \in 1..k : /\ sales[j].shopId = sales[k].shopId
                                      /\ LocalDay(sales[j].createdAt) = LocalDay(sales[k].createdAt)})

\* the first sale of the day was voided and the next sale of that shop on that
\* day has number 2
C19_Witness ==
    \E k \in DOMAIN sales :
        /\ sales[1].status = "VOIDED"
        /\ k > 1
        /\ sales[k].shopId = sales[1].shopId
        /\ LocalDay(sales[k].createdAt) = LocalDay(sales[1].createdAt)
        /\ sales[k].receiptNumber[2] = 2


\* C20: no step of a voidSale call, whether the call succeeds or fails,
\* changes a usage counter of any shop.
C20_VoidLeavesUsage ==
    [][\A p \in Procs :
          (req'[p] # req[p] /\ (req[p].op = "void" \/ req'[p].op = "void"))
          => shops' = shops]_vars

\* one voidSale call has voided the earlier sale and another was rejected,
\* and the counters are what they were before both
C20_Witness ==
    \E p, q \in Procs :
        /\ req[p].op = "void" /\ req[p].result = "ok"
        /\ req[q].op = "void" /\ req[q].result = "NotFoundOrVoided"
        /\ sales[1].status = "VOIDED"
        /\ shops["A"] = [monthlyTransactions |-> 1, monthlyStockMoves |-> 0]


\* C21: the ledger is append-only under createSale, voidSale, adjust, receive
\* and return processing: every entry present before a step is present,
\* at the same place and unchanged, after it.
C21_LedgerAppendOnly ==
    [][\A k \in DOMAIN stockLogs :
          k \in DOMAIN stockLogs' /\ stockLogs'[k] = stockLogs[k]]_vars

\* a return has been restocked and logged: the ledger still begins with the
\* INITIAL entries and the SALE entry of the earlier sale, as they were
C21_Witness ==
    /\ \E k \in DOMAIN returns : returns[k].items[1].restocked
    /\ Len(stockLogs) = Len(InitialLogs) + 2
    /\ SubSeq(stockLogs, 1, Len(InitialLogs)) = InitialLogs
    /\ stockLogs[Len(InitialLogs) + 1].type = "SALE"
    /\ stockLogs[Len(InitialLogs) + 1].reference = <<sales[1].id>>
    /\ stockLogs[Len(stockLogs)].type = "RETURN"

\* C22: every SaleItem of a committed sale has unitPrice and costPrice equal to
\* the product's sellPrice and costPrice when the sale is committed, and
\* totalPrice = unitPrice * quantity - line discount; the sale's subtotal is
\* the sum of its items' totalPrice and its tax is 0.
C22_SnapshotPricing ==
    /\ [](\A k \in DOMAIN sales :
            /\ sales[k].tax = 0
            /\ sales[k].subtotal =
                   SeqSum([i \in DOMAIN sales[k].items |-> sales[k].items[i].totalPrice])
            /\ \A i \in DOMAIN sales[k].items :
                  LET it == sales[k].items[i]
                  IN it.totalPrice = it.unitPrice * it.quantity - it.discount)
    /\ [][\A k \in DOMAIN sales' :
            k \notin DOMAIN sales =>
                \A i \in DOMAIN sales'[k].items :
                    LET it == sales'[k].items[i]
                    IN /\ it.unitPrice = products[it.productId].sellPrice
                       /\ it.costPrice = products[it.productId].costPrice]_vars

\* after a price edit, two units of P1 were sold at the new price with a line
\* discount, and the earlier sale keeps the price it was made at
C22_Witness ==
    \E k \in DOMAIN sales :
        /\ k > 1
        /\ sales[k].items[1].unitPrice = 9
        /\ sales[k].items[1].costPrice = 6
        /\ sales[k].items[1].discount > 0
        /\ sales[k].items[1].totalPrice = 9 * sales[k].items[1].quantity - sales[k].items[1].discount
        /\ sales[1].items[1].unitPrice = Catalog["P1"].sellPrice


\* the ledger entries of a product, in commit order
EntriesOf(pid) == SelectSeq(stockLogs, LAMBDA e : e.productId = pid)

\* C23: the ledger entries of every product form a chain in commit order:
\* each entry's previousQty is the newQty of the product's preceding entry,
\* the stored quantity just before the entry's quantity write, under any
\* interleaving of createSale, voidSale, adjust and receive.
C23_LedgerChain ==
    \A pid \in ProductIds :
        LET es == EntriesOf(pid)
        IN \A k \in DOMAIN es : k > 1 => es[k].previousQty = es[k - 1].newQty


\* C24: every ledger entry, whichever operation wrote it, has newQty =
\* previousQty + quantity, and in the step that commits it its newQty is the
\* product's stored quantity.
C24_EntryArithmetic ==
    /\ [](\A k \in DOMAIN stockLogs :
            stockLogs[k].newQty = stockLogs[k].previousQty + stockLogs[k].quantity)
    /\ [][\A e \in Range(NewLogs) : e.newQty = products'[e.productId].quantity]_vars


\* receipt numbers a shop has issued
ReceiptsOf(shop) == {sales[k].receiptNumber : k \in {j \in DOMAIN sales : sales[j].shopId = shop}}

\* C25: when sales are created strictly one after another, a shop has as many
\* distinct receipt numbers as it has sales, whatever the clock shows at each
\* creation and wherever the UTC date and the server-local day differ.
C25_SerialReceiptsDistinct ==
    \A shop \in ShopIds :
        Cardinality(ReceiptsOf(shop)) =
            Cardinality({k \in DOMAIN sales : sales[k].shopId = shop})


\* C26: an adjust whose delta would take the quantity below zero is rejected
\* with 'Cannot reduce stock below 0' and changes neither quantity nor ledger;
\* an accepted one sets the quantity to the previous quantity plus delta and
\* appends, in the same step, exactly one entry of the requested type with
\* quantity = delta.
C26_AdjustChecked ==
    [][/\ \A t \in AdjustTypes, q \in AdjustDeltas :
             AdjustStart(1, "A", "P1", t, q) =>
                 IF products["P1"].quantity + q < 0
                 THEN /\ req'[1].pc = "done"
                      /\ req'[1].result = "BelowZero"
                      /\ db' = db
                 ELSE /\ req'[1].pc = "a_commit"
                      /\ req'[1].adjType = t
                      /\ req'[1].items[1].quantity = q
       /\ \A p \in Procs :
             req[p].pc = "a_commit" =>
                 LET delta == req[p].items[1].quantity
                     pid == req[p].items[1].productId
                     quantity == products[pid].quantity
                 IN IF req'[p].pc = "a_usage"
                    THEN /\ products'[pid].quantity = quantity + delta
                         /\ NewLogs = <<StockLog(req[p].shopId, pid, req[p].adjType, delta,
                                                  quantity, quantity + delta, <<>>)>>
                    ELSE db' = db]_vars

\* the last unit of P1 was written off as DAMAGED, leaving 0 with its entry,
\* and a further reduction was rejected
C26_Witness ==
    /\ products["P1"].quantity = 0
    /\ LastLog("P1") = StockLog("A", "P1", "DAMAGED", -1, 1, 0, <<>>)
    /\ req[1].op = "adjust"
    /\ req[1].result = "BelowZero"


\* every item of a batch has a positive quantity and a product of the shop
GoodBatch(shop, b) ==
    \A i \in DOMAIN b : b[i].quantity > 0 /\ products[b[i].productId].shopId = shop

\* C27: receive is all-or-nothing over its batch: a batch with an item of
\* quantity <= 0 or of a product outside the caller's shop changes no quantity
\* and writes no entry, whatever items precede the offending one; any other
\* batch is accepted, and gives every item's product exactly its quantity and
\* exactly one RESTOCK entry.
C27_ReceiveAllOrNothing ==
    [][/\ \A b \in ReceiveBatches :
             ReceiveStart(1, "A", b) =>
                 /\ db' = db
                 /\ GoodBatch("A", b) => req'[1].pc = "r_items"
       /\ \A p \in Procs :
             req[p].op = "receive" /\ req[p].pc # "done" =>
                 \/ db' = db
                 \/ /\ GoodBatch(req[p].shopId, req[p].items)
                    /\ Len(NewLogs) = Len(req[p].items)
                    /\ \A pid \in ProductIds :
                          products'[pid].quantity = products[pid].quantity + Wants(p, pid)
                    /\ \A i \in DOMAIN req[p].items :
                          NewLogs[i].type = "RESTOCK"
                          /\ NewLogs[i].productId = req[p].items[i].productId
                          /\ NewLogs[i].quantity = req[p].items[i].quantity]_vars


\* no request is being served
Quiescent == \A p \in Procs : req[p].pc \in {"idle", "done"}

SalesOf(shop) == {k \in DOMAIN sales : sales[k].shopId = shop}

\* C28: a shop's monthlyTransactions is the number of its sales committed
\* through POST /sales: once a request has been served the counter is up by
\* one if it committed a sale, and a request whose cart is rejected does not
\* move it.
C28_UsageCountsSales ==
    /\ [](Quiescent =>
            \A shop \in ShopIds :
                shops[shop].monthlyTransactions = Cardinality(SalesOf(shop)))
    /\ [][\A p \in Procs :
            ( /\ req'[p] # req[p]
              /\ req'[p].op = "create"
              /\ req'[p].result \in ValidationErrors )
            => shops' = shops]_vars


\* sum of the deltas of one type that refer to a sale, for one product
SaleLedger(sid, pid, type) ==
    LogSum(LAMBDA e : e.reference = <<sid>> /\ e.productId = pid /\ e.type = type)

\* C29: for every sale and product, the RETURN deltas that refer to the sale
\* cancel its SALE deltas once it is voided and are nothing before: voidSale
\* credits a product exactly what the sale debited from it, also when the
\* product's trackStock flag was edited between the sale and the void.
C29_VoidCancelsSale ==
    \A k \in DOMAIN sales, pid \in ProductIds :
        SaleLedger(sales[k].id, pid, "RETURN") =
            IF sales[k].status = "VOIDED"
            THEN -SaleLedger(sales[k].id, pid, "SALE")
            ELSE 0


\* units of a product among the lines of a return that satisfy a test
ReturnUnits(lines, pid, Test(_)) ==
    SeqSum([k \in DOMAIN lines |->
              IF lines[k].productId = pid /\ Test(lines[k]) THEN lines[k].quantity ELSE 0])

\* the quantity of a product when the desk opens
ShelfQty(pid) ==
    IF pid = FirstItem.productId THEN Catalog[pid].quantity - FirstItem.quantity
    ELSE Catalog[pid].quantity

\* C30: however often a return is processed with 'complete', a product gains
\* at most the restockable units the return brings back, once, and loses at
\* most the units the return takes in exchange, once; and no step changes a
\* product quantity while the return is REJECTED.
C30_ProcessOnce ==
    /\ [](\A pid \in ProductIds :
            /\ products[pid].quantity <=
                  ShelfQty(pid) + ReturnUnits(FirstReturn.items, pid, LAMBDA l : l.restockable)
            /\ products[pid].quantity >=
                  ShelfQty(pid) - ReturnUnits(FirstReturn.exchangeItems, pid, LAMBDA l : TRUE))
    /\ [][returns[1].status = "REJECTED" => products' = products]_vars

=============================================================================
